---- MODULE Spec2Model ----
(***************************************************************************)
(* Resolution of a ConditionalPermission tree against an Environment       *)
(* (src/src/permission.rs).  resolve is a structurally recursive function; *)
(* it is modelled as an operator that returns, next to the value resolve   *)
(* returns, the trace of test_condition calls it makes on the environment  *)
(* and the trace of tree nodes it is invoked on, both in program order.    *)
(***************************************************************************)
EXTENDS Integers, Sequences, FiniteSets, TLC

\* Largest number of nodes (leaves and aggregates) of the trees explored.
MaxNodes == 4

----------------------------------------------------------------------------
(* Data model *)

\* enum Permission { ALLOW, DENY }
ALLOW == "ALLOW"
DENY == "DENY"
Permission == {ALLOW, DENY}

\* Option<Permission>
None == [tag |-> "None"]
Some(p) == [tag |-> "Some", val |-> p]
OptionPermission == {None} \cup {Some(p) : p \in Permission}

\* Result<T, Env::Err>
Ok(v) == [kind |-> "Ok", val |-> v]
Err(e) == [kind |-> "Err", err |-> e]

\* enum ConditionalPermission<CExp>
Silent == [tag |-> "Silent"]
Atomic(perm, cexp) == [tag |-> "Atomic", perm |-> perm, cexp |-> cexp]
Fixed(perm) == [tag |-> "Fixed", perm |-> perm]
Aggregate(perms) == [tag |-> "Aggregate", perms |-> perms]

\* The condition expressions of the environment: one that matches, one that
\* misses, and two on which the evaluator fails, each with its own error.
TestExpression == {"Match", "Miss", "ErrorA", "ErrorB"}

\* Environment::test_condition of the environment resolve is run against.
test_condition(exp) ==
    IF exp = "Match" THEN Ok(TRUE)
    ELSE IF exp = "Miss" THEN Ok(FALSE)
    ELSE Err(exp)

----------------------------------------------------------------------------
(* resolve *)

\* What one evaluation does: the value it returns, the test_condition calls
\* it makes (node path and expression) and the nodes resolve is invoked on.
Outcome(result, calls, visited) ==
    [result |-> result, calls |-> calls, visited |-> visited]

RECURSIVE resolve(_, _)
RECURSIVE collect(_, _, _)
RECURSIVE collect_all(_, _, _)
RECURSIVE collect_last_error(_, _, _)
RECURSIVE collect_rev(_, _, _)
RECURSIVE fold(_, _)

\* Silent => Ok(None)
resolve_silent(self, path) == Outcome(Ok(None), <<>>, <<path>>)

\* Mutant: the evaluator's failure is swallowed and read as a miss.
resolve_atomic_swallow(self, path) ==
    LET matched == test_condition(self.cexp)
        call == [path |-> path, cexp |-> self.cexp]
    IN  IF matched.kind = "Ok" /\ matched.val
        THEN Outcome(Ok(Some(self.perm)), <<call>>, <<path>>)
        ELSE Outcome(Ok(None), <<call>>, <<path>>)

\* Mutant: the permission is contributed whether or not the condition held.
resolve_atomic_unconditional(self, path) ==
    LET matched == test_condition(self.cexp)
        call == [path |-> path, cexp |-> self.cexp]
    IN  IF matched.kind = "Err"
        THEN Outcome(Err(matched.err), <<call>>, <<path>>)
        ELSE Outcome(Ok(Some(self.perm)), <<call>>, <<path>>)

\* Atomic(perm, cexp) => { let matched = environment.test_condition(cexp)?; ... }
resolve_atomic(self, path) ==
    LET matched == test_condition(self.cexp)
        call == [path |-> path, cexp |-> self.cexp]
    IN  IF matched.kind = "Err"
        THEN Outcome(Err(matched.err), <<call>>, <<path>>)
        ELSE IF matched.val
             THEN Outcome(Ok(Some(self.perm)), <<call>>, <<path>>)
             ELSE Outcome(Ok(None), <<call>>, <<path>>)

\* Fixed(perm) => Ok(Some(*perm))
resolve_fixed(self, path) == Outcome(Ok(Some(self.perm)), <<>>, <<path>>)

\* Mutant: every child is resolved, and the first error is reported afterwards.
collect_all(perms, path, i) ==
    IF i > Len(perms)
    THEN Outcome(Ok(<<>>), <<>>, <<>>)
    ELSE LET head == resolve(perms[i], Append(path, i))
             rest == collect_all(perms, path, i + 1)
         IN  Outcome(IF head.result.kind = "Err" THEN head.result
                     ELSE IF rest.result.kind = "Err" THEN rest.result
                     ELSE Ok(<<head.result.val>> \o rest.result.val),
                     head.calls \o rest.calls,
                     head.visited \o rest.visited)

\* Mutant: every child is resolved, and the last error is reported.
collect_last_error(perms, path, i) ==
    IF i > Len(perms)
    THEN Outcome(Ok(<<>>), <<>>, <<>>)
    ELSE LET head == resolve(perms[i], Append(path, i))
             rest == collect_last_error(perms, path, i + 1)
         IN  Outcome(IF rest.result.kind = "Err" THEN rest.result
                     ELSE IF head.result.kind = "Err" THEN head.result
                     ELSE Ok(<<head.result.val>> \o rest.result.val),
                     head.calls \o rest.calls,
                     head.visited \o rest.visited)

\* Mutant: the children are resolved from the last to the first.
collect_rev(perms, path, i) ==
    IF i > Len(perms)
    THEN Outcome(Ok(<<>>), <<>>, <<>>)
    ELSE LET rest == collect_rev(perms, path, i + 1)
         IN  IF rest.result.kind = "Err"
             THEN rest
             ELSE LET head == resolve(perms[i], Append(path, i))
                  IN  Outcome(IF head.result.kind = "Err" THEN head.result
                              ELSE Ok(<<head.result.val>> \o rest.result.val),
                              rest.calls \o head.calls,
                              rest.visited \o head.visited)

\* perms.iter().map(|p| p.resolve(environment)).collect() into
\* Result<Vec<_>, Err>, from child i on: the map is lazy and the collection
\* into a Result takes no further element once one is an Err.
collect(perms, path, i) ==
    IF i > Len(perms)
    THEN Outcome(Ok(<<>>), <<>>, <<>>)
    ELSE LET head == resolve(perms[i], Append(path, i))
         IN  IF head.result.kind = "Err"
             THEN head
             ELSE LET rest == collect(perms, path, i + 1)
                  IN  Outcome(IF rest.result.kind = "Err" THEN rest.result
                              ELSE Ok(<<head.result.val>> \o rest.result.val),
                              head.calls \o rest.calls,
                              head.visited \o rest.visited)

\* Mutant: an Allow outweighs a Deny.
combine_allow_override(a, v) ==
    IF a = None THEN v
    ELSE IF v = None THEN a
    ELSE IF a = Some(DENY) /\ v = Some(DENY) THEN Some(DENY)
    ELSE Some(ALLOW)

\* Mutant: the arm (x, None) => x is missing, so the pair falls to the last arm.
combine_no_right_identity(a, v) ==
    IF a = None THEN v
    ELSE IF a = Some(ALLOW) /\ v = Some(ALLOW) THEN Some(ALLOW)
    ELSE Some(DENY)

\* Mutant: the arm (Some(ALLOW), Some(ALLOW)) => Some(ALLOW) is missing.
combine_no_allow_arm(a, v) ==
    IF a = None THEN v
    ELSE IF v = None THEN a
    ELSE Some(DENY)

\* Mutant: of two opinions the earlier one is kept.
combine_first_wins(a, v) ==
    IF a = None THEN v ELSE a

\* The closure of the fold: match (a, v) { (None, x) => *x, (x, None) => x,
\* (Some(ALLOW), Some(ALLOW)) => Some(ALLOW), _ => Some(DENY) }
combine(a, v) ==
    IF a = None THEN v
    ELSE IF v = None THEN a
    ELSE IF a = Some(ALLOW) /\ v = Some(ALLOW) THEN Some(ALLOW)
    ELSE Some(DENY)

\* Iterator::fold from accumulator a over the collected outcomes.
fold(a, resolved) ==
    IF resolved = <<>> THEN a
    ELSE fold(combine(a, Head(resolved)), Tail(resolved))

\* Mutant: the fold starts from Allow instead of from no opinion.
fold_resolved_from_allow(resolved) == fold(Some(ALLOW), resolved)

\* resolved.iter().fold(None, ...)
fold_resolved(resolved) == fold(None, resolved)

\* Aggregate(perms) => { collect; resolved?; fold; Ok(resolved) }
resolve_aggregate(self, path) ==
    LET resolved == collect(self.perms, path, 1)
    IN  IF resolved.result.kind = "Err"
        THEN Outcome(resolved.result, resolved.calls, <<path>> \o resolved.visited)
        ELSE Outcome(Ok(fold_resolved(resolved.result.val)),
                     resolved.calls, <<path>> \o resolved.visited)

\* ConditionalPermission::resolve on the node at `path` of the tree.
resolve(self, path) ==
    CASE self.tag = "Silent" -> resolve_silent(self, path)
      [] self.tag = "Atomic" -> resolve_atomic(self, path)
      [] self.tag = "Fixed" -> resolve_fixed(self, path)
      [] self.tag = "Aggregate" -> resolve_aggregate(self, path)

----------------------------------------------------------------------------
(* The trees resolve is applied to *)

Leaves ==
    {Silent} \cup {Fixed(p) : p \in Permission}
             \cup {Atomic(p, c) : p \in Permission, c \in TestExpression}

RECURSIVE TreesOfSize(_)
RECURSIVE Forests(_)

\* The sequences of trees with n nodes in all.
Forests(n) ==
    IF n = 0 THEN {<<>>}
    ELSE UNION {{<<t>> \o f : t \in TreesOfSize(k), f \in Forests(n - k)} : k \in 1..n}

\* The trees with exactly n nodes.
TreesOfSize(n) ==
    (IF n = 1 THEN Leaves ELSE {}) \cup {Aggregate(f) : f \in Forests(n - 1)}

Trees == UNION {TreesOfSize(n) : n \in 1..MaxNodes}

----------------------------------------------------------------------------
(* State machine: one resolve call on a tree *)

VARIABLES tree, pc, result, calls, visited

vars == <<tree, pc, result, calls, visited>>

Init ==
    /\ tree \in Trees
    /\ pc = "ready"
    /\ result = Ok(None)
    /\ calls = <<>>
    /\ visited = <<>>

\* tree.resolve(&environment)
Resolve ==
    /\ pc = "ready"
    /\ LET out == resolve(tree, <<>>)
       IN  /\ result' = out.result
           /\ calls' = out.calls
           /\ visited' = out.visited
    /\ pc' = "done"
    /\ UNCHANGED tree

Next == Resolve

Spec == Init /\ [][Next]_vars

----------------------------------------------------------------------------
(* Vocabulary of the properties *)

Done == pc = "done"

IsAggregate == tree.tag = "Aggregate"

Children == IF IsAggregate THEN tree.perms ELSE <<>>

\* What child i of the aggregate resolves to on its own.
ChildResult(i) == resolve(Children[i], <<i>>).result

AllChildrenOk == \A i \in 1..Len(Children) : ChildResult(i).kind = "Ok"

RECURSIVE AtomicDFS(_, _)
RECURSIVE AtomicDFSOfChildren(_, _, _)

\* The Atomic nodes of a tree (path and expression) in depth-first,
\* left-to-right order.
AtomicDFS(node, path) ==
    IF node.tag = "Atomic" THEN <<[path |-> path, cexp |-> node.cexp]>>
    ELSE IF node.tag = "Aggregate" THEN AtomicDFSOfChildren(node.perms, path, 1)
    ELSE <<>>

AtomicDFSOfChildren(perms, path, i) ==
    IF i > Len(perms) THEN <<>>
    ELSE AtomicDFS(perms[i], Append(path, i)) \o AtomicDFSOfChildren(perms, path, i + 1)

\* The positions, in depth-first order, of the conditions the evaluator fails on.
FailingPositions ==
    LET dfs == AtomicDFS(tree, <<>>)
    IN  {k \in 1..Len(dfs) : test_condition(dfs[k].cexp).kind = "Err"}

FailingErrors ==
    LET dfs == AtomicDFS(tree, <<>>)
    IN  {test_condition(dfs[k].cexp).err : k \in FailingPositions}

Min(S) == CHOOSE x \in S : \A y \in S : x <= y

IsPrefix(s, t) == Len(s) <= Len(t) /\ s = SubSeq(t, 1, Len(s))

Range(s) == {s[k] : k \in 1..Len(s)}

\* The aggregate with its child i, itself an aggregate, replaced by that
\* child's own children.
Flatten(node, i) ==
    Aggregate(SubSeq(node.perms, 1, i - 1) \o node.perms[i].perms
              \o SubSeq(node.perms, i + 1, Len(node.perms)))

\* The aggregate with its children rearranged by the permutation f.
Permuted(node, f) == Aggregate([j \in 1..Len(node.perms) |-> node.perms[f[j]]])

----------------------------------------------------------------------------
(* Properties *)

\* C1 (deny-override): an Aggregate whose children all resolve without error,
\* at least one of them to Some(Deny), resolves to Ok(Some(Deny)), wherever the
\* Deny child stands and whatever Allow and None outcomes surround it.
C1_DenyOverride ==
    (Done /\ IsAggregate /\ AllChildrenOk
        /\ \E i \in 1..Len(Children) : ChildResult(i) = Ok(Some(DENY)))
    => result = Ok(Some(DENY))

C1_Witness ==
    /\ Done /\ IsAggregate /\ Len(Children) = 3
    /\ ChildResult(1) = Ok(Some(ALLOW))
    /\ ChildResult(2) = Ok(None)
    /\ ChildResult(3) = Ok(Some(DENY))
    /\ result = Ok(Some(DENY))

C3_AllChildrenResolved ==
    (Done /\ IsAggregate)
    => \A i \in 1..Len(Children) : <<i>> \in Range(visited)

\* C3 as amended: resolve applied to an Aggregate resolves its children in the
\* listed order up to and including the first child whose resolution fails; the
\* children listed after that one are not resolved and none of their conditions
\* is tested; when no child fails every child is resolved.
C3_ResolvedUpToFirstFailure ==
    (Done /\ IsAggregate)
    => LET failing == {i \in 1..Len(Children) : ChildResult(i).kind = "Err"}
           last == IF failing = {} THEN Len(Children) ELSE Min(failing)
       IN  /\ \A i \in 1..Len(Children) : (<<i>> \in Range(visited)) <=> (i <= last)
           /\ \A k \in 1..Len(calls) : Head(calls[k].path) <= last

C3_Witness ==
    /\ Done /\ IsAggregate /\ Len(Children) = 3
    /\ ChildResult(1).kind = "Ok"
    /\ ChildResult(2).kind = "Err"
    /\ Children[3].tag = "Atomic"
    /\ <<2>> \in Range(visited)
    /\ <<3>> \notin Range(visited)

\* C4 (all-allow): an Aggregate whose children all resolve without error, at
\* least one to Some(Allow) and none to Some(Deny), resolves to Ok(Some(Allow)),
\* however many children resolve to None and wherever they stand.
C4_AllAllow ==
    (Done /\ IsAggregate /\ AllChildrenOk
        /\ (\E i \in 1..Len(Children) : ChildResult(i) = Ok(Some(ALLOW)))
        /\ (\A i \in 1..Len(Children) : ChildResult(i) # Ok(Some(DENY))))
    => result = Ok(Some(ALLOW))

C4_Witness ==
    /\ Done /\ IsAggregate /\ Len(Children) = 3
    /\ ChildResult(1) = Ok(Some(ALLOW))
    /\ ChildResult(2) = Ok(None)
    /\ ChildResult(3) = Ok(Some(ALLOW))
    /\ result = Ok(Some(ALLOW))

\* C5 (identity of absence): an Aggregate whose children all resolve to None,
\* the Aggregate without children included, resolves to Ok(None).
C5_IdentityOfAbsence ==
    (Done /\ IsAggregate /\ \A i \in 1..Len(Children) : ChildResult(i) = Ok(None))
    => result = Ok(None)

C5_Witness ==
    /\ Done /\ IsAggregate /\ Len(Children) = 3
    /\ Children[1] = Silent
    /\ Children[2] = Atomic(DENY, "Miss")
    /\ Children[3] = Aggregate(<<>>)
    /\ result = Ok(None)

\* C6 (atomic leaf): Atomic(p, c) resolves to Ok(Some(p)) when test_condition(c)
\* is Ok(true), to Ok(None) when it is Ok(false), and to Err(e) when it is Err(e).
C6_AtomicLeaf ==
    (Done /\ tree.tag = "Atomic")
    => LET matched == test_condition(tree.cexp)
       IN  /\ matched = Ok(TRUE) => result = Ok(Some(tree.perm))
           /\ matched = Ok(FALSE) => result = Ok(None)
           /\ matched.kind = "Err" => result = Err(matched.err)

C6_Witness ==
    /\ Done
    /\ tree = Atomic(DENY, "Match")
    /\ result = Ok(Some(DENY))

\* C7 (nesting): an Aggregate with an Aggregate among its children resolves to
\* the same result, Ok value or Err, as the Aggregate in which that child is
\* replaced in place by its own children.
C7_Nesting ==
    (Done /\ IsAggregate)
    => \A i \in 1..Len(Children) :
          Children[i].tag = "Aggregate"
          => resolve(Flatten(tree, i), <<>>).result = result

C7_Witness ==
    /\ Done /\ IsAggregate /\ Len(Children) = 2
    /\ Children[1] = Fixed(ALLOW)
    /\ Children[2].tag = "Aggregate"
    /\ Len(Children[2].perms) = 1
    /\ ChildResult(2) = Ok(None)
    /\ result = Ok(Some(ALLOW))
    /\ resolve(Flatten(tree, 2), <<>>).result = result

\* C8 (order independence): for an Aggregate whose children all resolve without
\* error every permutation of the children resolves to the same Ok value, and
\* the fold's operation on {None, Some(Allow), Some(Deny)} is associative and
\* commutative with None as its identity.
C8_OrderIndependence ==
    /\ (Done /\ IsAggregate /\ AllChildrenOk)
       => \A f \in Permutations(1..Len(Children)) :
             resolve(Permuted(tree, f), <<>>).result = result
    /\ Done
       => \A a, b, c \in OptionPermission :
             /\ combine(a, b) = combine(b, a)
             /\ combine(combine(a, b), c) = combine(a, combine(b, c))
             /\ combine(None, a) = a
             /\ combine(a, None) = a

C8_Witness ==
    /\ Done /\ IsAggregate /\ Len(Children) = 3
    /\ ChildResult(1) = Ok(Some(DENY))
    /\ ChildResult(2) = Ok(Some(ALLOW))
    /\ ChildResult(3) = Ok(None)
    /\ result = Ok(Some(DENY))
    /\ resolve(Aggregate(<<Children[3], Children[2], Children[1]>>), <<>>).result = result

\* C9 (evaluation order): the test_condition calls of one resolve follow the
\* depth-first, left-to-right order of the tree's Atomic nodes, without a gap:
\* every condition of child i is tested before any condition of child i+1,
\* Silent and Fixed nodes cause no call, and no Atomic node is tested twice.
C9_EvaluationOrder ==
    Done => IsPrefix(calls, AtomicDFS(tree, <<>>))

C9_Witness ==
    /\ Done /\ IsAggregate /\ Len(Children) = 2
    /\ Children[1] = Aggregate(<<Atomic(ALLOW, "Miss")>>)
    /\ Children[2] = Atomic(DENY, "Match")
    /\ calls = <<[path |-> <<1, 1>>, cexp |-> "Miss"], [path |-> <<2>>, cexp |-> "Match"]>>

\* C10 (first error wins): when the evaluator fails on conditions of the tree,
\* resolve returns the error of the first failing condition in depth-first,
\* left-to-right order; a child that resolved to Some(Deny) earlier in the list
\* does not turn the error into Ok(Some(Deny)).
C10_FirstErrorWins ==
    (Done /\ FailingPositions # {})
    => LET dfs == AtomicDFS(tree, <<>>)
       IN  result = Err(test_condition(dfs[Min(FailingPositions)].cexp).err)

C10_Witness ==
    /\ Done /\ IsAggregate /\ Len(Children) = 3
    /\ Children[1] = Fixed(DENY)
    /\ Children[2] = Atomic(ALLOW, "ErrorB")
    /\ Children[3] = Atomic(ALLOW, "ErrorA")
    /\ result = Err("ErrorB")

====
